---- MODULE Spec2Model ----
(***************************************************************************)
(* Motion Director backend (src/agent/main.py, src/agent/motion_director.py)*)
(* The /motion/generate handler with its two pipelines (Pro-I2V and Motion  *)
(* Control), the parallel writer tasks, the editor stage and the in-memory  *)
(* motion session store.  Agent invocations are calls to an external LLM:   *)
(* what an agent returns is an input drawn from a small set.                *)
(* Spec explores /motion/generate from an empty store with the clock held;  *)
(* RefineSpec explores /motion/refine and the clock on a generated session. *)
(***************************************************************************)
EXTENDS Integers, Sequences, FiniteSets, TLC

(***************************************************************************)
(* Bounds of the exploration                                                *)
(***************************************************************************)
\* largest number of images of an accepted request that is explored
MaxN == 2

(***************************************************************************)
(* Program constants                                                        *)
(***************************************************************************)
\* main.py:54  SESSION_TTL = 30 * 60
SESSION_TTL == 1800
\* main.py:1099  len(req.images) > 10
MaxImages == 10

\* motion_director.py:22  two of the keys of STYLE_PRESETS
STYLE_PRESETS == {"fashion_walk", "cinematic_narrative"}

\* uuid4 session ids that can be issued, API keys that requests carry
SessionIds == {"sid1"}
ApiKeys == {"key1"}

(***************************************************************************)
(* JSON values.  Every value is a record with a kind; a dict is a record    *)
(* whose other fields are its keys, so that `k in d` is k \in DOMAIN d.     *)
(***************************************************************************)
Scalar == [kind |-> "scalar"]
JList(items) == [kind |-> "list", items |-> items]
Nil == [kind |-> "nil"]

IsDict(v) == v.kind = "dict"
IsList(v) == v.kind = "list"
Has(d, k) == k \in DOMAIN d
\* dict.get(k, default)
Get(d, k, default) == IF k \in DOMAIN d THEN d[k] ELSE default

\* list(range(n)) as a sequence of 0-based indices
Range(n) == [j \in 1..n |-> j - 1]

(***************************************************************************)
(* Agent outcomes: _run_agent raises, or returns the concatenated text of   *)
(* the final response ("" when the run yields no text).  A non-empty text   *)
(* is described by what json.loads yields on the cleaned text (whole), on   *)
(* the outermost {...} span (obj) and on the outermost [...] span (arr).    *)
(***************************************************************************)
NoJson == [kind |-> "nojson"]
Raise == [kind |-> "raise"]
EmptyText == [kind |-> "text", empty |-> TRUE]
Text(w, o, a) == [kind |-> "text", empty |-> FALSE, whole |-> w, obj |-> o, arr |-> a]
Garbage == Text(NoJson, NoJson, NoJson)

\* the texts in which a model may deliver the JSON value v: bare or fenced,
\* or surrounded by prose
TextsOf(v) ==
    {Text(v, NoJson, NoJson)}
        \cup (IF IsDict(v) THEN {Text(NoJson, v, NoJson)} ELSE {})
        \cup (IF IsList(v) THEN {Text(NoJson, NoJson, v)} ELSE {})

ValueError == [kind |-> "ValueError"]
Exc == [kind |-> "exception"]

\* motion_director.py:545  parse_json_from_text
parse_json_from_text(text) ==
    IF text.whole # NoJson THEN text.whole
    ELSE IF text.obj # NoJson THEN text.obj
    ELSE IF text.arr # NoJson THEN text.arr
    ELSE ValueError

(***************************************************************************)
(* Scene records, artifacts and the constant payloads of the two pipelines  *)
(***************************************************************************)
PRO == "pro-i2v"
MC == "motion-control"

\* main.py:546-566 (Pro-I2V) and main.py:865-876 (Motion Control): the
\* placeholder scene record appended while the plan is too short
PlaceholderScene(k, ptype) ==
    [kind |-> "dict", scene_index |-> k, original_position |-> k,
     payload |-> IF ptype = MC THEN "default_mc_scene" ELSE "default_i2v_scene"]

\* main.py:643-659 (Pro-I2V) and main.py:947-960 (Motion Control): the
\* fallback artifact of scene i
FallbackArtifact(i, ptype) ==
    [kind |-> "dict", scene_index |-> i, typed |-> TRUE,
     body |-> IF ptype = MC THEN "fallback_context" ELSE "fallback_motion"]

(***************************************************************************)
(* Plan normalization                                                       *)
(***************************************************************************)
RECURSIVE PadScenesOffByOne(_, _, _)
\* faulty variant: the placeholder is numbered from 1
PadScenesOffByOne(scenes, n, ptype) ==
    IF Len(scenes) < n
    THEN PadScenesOffByOne(Append(scenes, PlaceholderScene(Len(scenes) + 1, ptype)), n, ptype)
    ELSE scenes

RECURSIVE PadScenes(_, _, _)
\* main.py:545-566 / 864-876: while len(scenes) < len(req.images): append
PadScenes(scenes, n, ptype) ==
    IF Len(scenes) < n
    THEN PadScenes(Append(scenes, PlaceholderScene(Len(scenes), ptype)), n, ptype)
    ELSE scenes

\* faulty variant: the slice is missing
TruncateScenesKeepsTail(scenes, n) == scenes

\* main.py:567 / 877: scene_plan["scenes"][:len(req.images)]
TruncateScenes(scenes, n) == SubSeq(scenes, 1, IF Len(scenes) < n THEN Len(scenes) ELSE n)

\* main.py:544-573 / 863-883, for a plan that is a dict with a scenes list
NormalizePlan(plan, n, ptype) ==
    LET scenes == TruncateScenes(PadScenes(plan.scenes.items, n, ptype), n)
        sized == [plan EXCEPT !.scenes = JList(scenes)]
    IN  IF Has(sized, "recommended_order")
        THEN sized
        ELSE ("recommended_order" :> JList(Range(n))) @@ sized

\* motion_director.py:517-538.  style_details and the advisory arcs are copied
\* from the preset table and the plan and are not read by the core.
build_pipeline_state(scene_plan, style_preset) ==
    [style_preset |-> style_preset,
     scene_plan |-> scene_plan,
     recommended_order |-> Get(scene_plan, "recommended_order", JList(<<>>)),
     order_reasoning |-> Get(scene_plan, "order_reasoning", "")]

\* motion_director.py:1121-1142
build_mc_pipeline_state(video_analysis, scene_plan, style_preset) ==
    [video_analysis |-> video_analysis,
     style_preset |-> style_preset,
     scene_plan |-> scene_plan,
     recommended_order |-> Get(scene_plan, "recommended_order", JList(<<>>)),
     order_reasoning |-> Get(scene_plan, "order_reasoning", "")]

(***************************************************************************)
(* Writer tasks                                                             *)
(***************************************************************************)
\* faulty variant: the position of the last occurrence
SequencePositionLast(order_items, idx) ==
    IF \E j \in 1..Len(order_items) : order_items[j] = idx
    THEN (CHOOSE j \in 1..Len(order_items) :
              /\ order_items[j] = idx
              /\ \A k \in (j + 1)..Len(order_items) : order_items[k] # idx) - 1
    ELSE idx

\* main.py:597-600 / 902-905: recommended_order.index(idx), idx on ValueError
SequencePosition(order_items, idx) ==
    IF \E j \in 1..Len(order_items) : order_items[j] = idx
    THEN (CHOOSE j \in 1..Len(order_items) :
              /\ order_items[j] = idx
              /\ \A k \in 1..(j - 1) : order_items[k] # idx) - 1
    ELSE idx

\* motion_director.py:416-428 / 1028-1040: the plan record handed to a writer
SceneData(pipeline_state, scene_index) ==
    LET scenes == pipeline_state.scene_plan.scenes.items
        hits == {j \in 1..Len(scenes) : Get(scenes[j], "scene_index", -1) = scene_index}
    IN  IF hits # {}
        THEN scenes[CHOOSE j \in hits : \A k \in hits : j <= k]
        ELSE IF scene_index < Len(scenes) THEN scenes[scene_index + 1]
        ELSE [kind |-> "dict"]

\* main.py:614-633 / 921-937: what a writer task yields for the outcome o of
\* its agent run: an exception, the in-task fallback, or the parsed JSON
WriterTaskResult(o, idx, ptype) ==
    IF o = Raise THEN Exc
    ELSE IF o.empty THEN FallbackArtifact(idx, ptype)
    ELSE IF parse_json_from_text(o) = ValueError THEN Exc
    ELSE parse_json_from_text(o)

\* main.py:661 / 962-963: result.get("motion_prompt", "")[:80] raises on a
\* result that is no dict or whose prompt text is no string
WriterLogRaises(result) == ~IsDict(result) \/ ~Get(result, "typed", TRUE)

\* main.py:639-662 / 943-964: the loop over the gathered results; Exc when the
\* loop itself raises
\* faulty variant: a failed task is skipped instead of replaced
CollectWriterResultsSkipFailed(raw, ptype) ==
    IF \E i \in 1..Len(raw) : raw[i] # Exc /\ WriterLogRaises(raw[i])
    THEN Exc
    ELSE JList(SelectSeq(raw, LAMBDA r : r # Exc))

\* faulty variant: gather without return_exceptions, a failed task fails the stage
CollectWriterResultsPropagate(raw, ptype) ==
    IF \E i \in 1..Len(raw) : raw[i] = Exc \/ WriterLogRaises(raw[i])
    THEN Exc
    ELSE JList(raw)

CollectWriterResults(raw, ptype) ==
    IF \E i \in 1..Len(raw) : raw[i] # Exc /\ WriterLogRaises(raw[i])
    THEN Exc
    ELSE JList([i \in 1..Len(raw) |->
                  IF raw[i] = Exc THEN FallbackArtifact(i - 1, ptype) ELSE raw[i]])

(***************************************************************************)
(* Editor stage                                                             *)
(***************************************************************************)
\* faulty variant: the fallback starts from an empty list
UnreviewedDropsPrompts(motion_prompts, scene_plan, pipeline_state) ==
    [final_prompts |-> JList(<<>>),
     final_order |-> scene_plan.recommended_order,
     order_reasoning |-> Get(scene_plan, "order_reasoning", ""),
     pipeline_state |-> pipeline_state]

\* main.py:688-689, 712-716 / 992-997: the outcome when the review changes
\* nothing: the writers' list, the plan's order and the plan's rationale
Unreviewed(motion_prompts, scene_plan, pipeline_state) ==
    [final_prompts |-> motion_prompts,
     final_order |-> scene_plan.recommended_order,
     order_reasoning |-> Get(scene_plan, "order_reasoning", ""),
     pipeline_state |-> pipeline_state]

\* faulty variant: an order is adopted only when it is flagged as changed
ResolveOrderChangedOnly(editor_result, recommended_order) ==
    IF Get(editor_result, "order_changed", FALSE) /\ Has(editor_result, "final_order")
    THEN editor_result.final_order
    ELSE recommended_order

\* main.py:699-705 / 1004-1010: the order after an editor object with prompts
ResolveOrder(editor_result, recommended_order) ==
    IF Get(editor_result, "order_changed", FALSE) /\ Has(editor_result, "final_order")
    THEN editor_result.final_order
    ELSE IF Has(editor_result, "final_order")
    THEN editor_result.final_order
    ELSE recommended_order

\* main.py:699-701 / 1004-1006: the rationale after an editor object with prompts
ResolveReasoning(editor_result, order_reasoning) ==
    IF Get(editor_result, "order_changed", FALSE) /\ Has(editor_result, "final_order")
    THEN Get(editor_result, "order_change_reason", order_reasoning)
    ELSE order_reasoning

\* main.py:687-716 (Pro-I2V) and main.py:991-1017 (Motion Control): the final
\* prompts, the resolved order, its rationale and the pipeline state after the
\* editor text (possibly "") has been read
ResolveEditor(editor_text, motion_prompts, scene_plan, pipeline_state) ==
    LET unreviewed == Unreviewed(motion_prompts, scene_plan, pipeline_state)
    IN  IF editor_text.empty THEN unreviewed
        ELSE LET editor_result == parse_json_from_text(editor_text)
             IN  IF editor_result = ValueError THEN unreviewed
                 ELSE IF IsDict(editor_result) /\ Has(editor_result, "prompts")
                 THEN [final_prompts |-> editor_result.prompts,
                       final_order |-> ResolveOrder(editor_result, unreviewed.final_order),
                       order_reasoning |->
                           ResolveReasoning(editor_result, unreviewed.order_reasoning),
                       pipeline_state |->
                           ("editor_notes" :> Get(editor_result, "review_notes", ""))
                               @@ pipeline_state]
                 ELSE IF IsList(editor_result)
                 THEN [unreviewed EXCEPT !.final_prompts = editor_result]
                 ELSE unreviewed

\* main.py:735-743 / 1035-1043: MotionPromptItem built from artifact p at
\* position i (0-based)
MotionPromptItem(p, i) ==
    [scene_index |-> Get(p, "scene_index", i), body |-> Get(p, "body", "")]

\* main.py:720-743 / 1021-1043: the loop raises when final_prompts cannot be
\* iterated as dicts (p.get) or an item fails validation
PromptItemsRaise(final_prompts) ==
    \/ ~IsList(final_prompts)
    \/ \E i \in 1..Len(final_prompts.items) :
           \/ ~IsDict(final_prompts.items[i])
           \/ ~Get(final_prompts.items[i], "typed", TRUE)

BuildPromptItems(final_prompts) ==
    [i \in 1..Len(final_prompts.items) |-> MotionPromptItem(final_prompts.items[i], i - 1)]

\* main.py:454  recommended_order: Optional[list[int]] = None
ResponseOrderValid(final_order) == IsList(final_order)

\* main.py:365-389  MotionSessionEntry
MotionSessionEntry(session_id, prompts, scene_plan, style_preset, pipeline_type, pipeline_state, final_order, video_analysis, character_orientation, keep_original_sound, time) ==
    [session_id |-> session_id,
     prompts |-> prompts,
     scene_plan |-> scene_plan,
     style_preset |-> style_preset,
     pipeline_type |-> pipeline_type,
     pipeline_state |-> pipeline_state,
     final_order |-> final_order,
     video_analysis |-> video_analysis,
     character_orientation |-> character_orientation,
     keep_original_sound |-> keep_original_sound,
     last_access |-> time]

\* faulty variant: nothing is ever swept
cleanup_motion_sessionsKeepsAll(store, time) == store

\* faulty variant: an entry is deleted as soon as its age reaches the TTL
cleanup_motion_sessionsAtTTL(store, time) ==
    LET expired == {sid \in DOMAIN store : time - store[sid].last_access >= SESSION_TTL}
    IN  [sid \in (DOMAIN store) \ expired |-> store[sid]]

\* main.py:394-399  cleanup_motion_sessions: the store without the entries
\* whose age exceeds the TTL
cleanup_motion_sessions(store, time) ==
    LET expired == {sid \in DOMAIN store : time - store[sid].last_access > SESSION_TTL}
    IN  [sid \in (DOMAIN store) \ expired |-> store[sid]]

(***************************************************************************)
(* Inputs: requests and what the agents return                              *)
(***************************************************************************)
Reverse(seq) == [j \in 1..Len(seq) |-> seq[Len(seq) + 1 - j]]

\* MotionGenerateRequest (main.py:410-421); only the number of images matters
Requests ==
    [api_key : ApiKeys,
     n_images : (0..MaxN) \cup {MaxImages + 1},
     style_preset : {"fashion_walk", "unknown_style"},
     pipeline_type : {PRO},
     has_video : {FALSE},
     character_orientation : {"none"},
     keep_original_sound : {TRUE}]
    \cup
    [api_key : ApiKeys,
     n_images : (0..MaxN) \cup {MaxImages + 1},
     style_preset : {"fashion_walk", "unknown_style"},
     pipeline_type : {MC},
     has_video : BOOLEAN,
     character_orientation : {"none", "image"},
     keep_original_sound : {TRUE}]

VideoAnalysis == [kind |-> "dict", payload |-> "video_analysis"]
VideoOutcomes ==
    {Raise, EmptyText, Garbage} \cup TextsOf(Scalar) \cup TextsOf(VideoAnalysis)

\* a scene record as the planner returns it: j is its position in the
\* planner's list, s the scene_index it declares
PlannerScene(j, s) ==
    [kind |-> "dict", scene_index |-> s, original_position |-> j, payload |-> "planned"]
PlannerScenes(len) == [j \in 1..len |-> PlannerScene(j - 1, j - 1)]
PlannerScenesSameIndex(len) == [j \in 1..len |-> PlannerScene(j - 1, 0)]

PlannerOrders(n) ==
    {JList(Range(n)), JList(Reverse(Range(n))), JList([j \in 1..n |-> 0]),
     JList(<<n>>), Scalar}

PlanValues(n) ==
    \* scenes lists of every length from 0 to n + 1, no recommended_order
    {[kind |-> "dict", scenes |-> JList(PlannerScenes(len))] : len \in 0..(n + 1)}
    \* a full scenes list with a recommended_order
    \cup {[kind |-> "dict", scenes |-> JList(PlannerScenes(n)),
           recommended_order |-> ord, order_reasoning |-> "planner reasoning"] :
              ord \in PlannerOrders(n)}
    \* records that all declare scene_index 0
    \cup {[kind |-> "dict", scenes |-> JList(PlannerScenesSameIndex(n)),
           recommended_order |-> JList(Reverse(Range(n)))]}
    \* not a plan
    \cup {Scalar, JList(<<>>),
          [kind |-> "dict", recommended_order |-> JList(Range(n))],
          [kind |-> "dict", scenes |-> Scalar]}

ConfigOutcomes(n) ==
    {Raise, EmptyText, Garbage} \cup UNION {TextsOf(v) : v \in PlanValues(n)}

\* an artifact written for the image of scene `image`, declaring scene_index k
WriterArtifact(k, image) ==
    [kind |-> "dict", scene_index |-> k, typed |-> TRUE, body |-> "written", image |-> image]

WriterValues(idx) ==
    {Scalar, JList(<<>>),
     WriterArtifact(idx, idx), WriterArtifact(idx + 1, idx),
     [WriterArtifact(idx, idx) EXCEPT !.typed = FALSE]}

WriterOutcomes(idx) ==
    {Raise, EmptyText, Garbage} \cup UNION {TextsOf(v) : v \in WriterValues(idx)}

\* the editor's rewrite of an artifact
Polish(p) == [p EXCEPT !.body = "polished"]
Polished(items) == [i \in 1..Len(items) |-> Polish(items[i])]

EditorLists(items) ==
    {Polished(items),
     items,
     SubSeq(Polished(items), 1, Len(items) - 1),
     Append(Polished(items), Polish(WriterArtifact(Len(items), Len(items)))),
     <<Scalar>>,
     <<[Polish(items[1]) EXCEPT !.typed = FALSE]>>}

EditorOrder(n) == JList(Reverse(Range(n)))

\* the order fields an editor object may carry next to its prompts
EditorOrderFields(n) ==
    {[review_notes |-> "notes"],
     [order_changed |-> TRUE, final_order |-> EditorOrder(n),
      order_change_reason |-> "editor reasoning", review_notes |-> "notes"],
     [order_changed |-> TRUE, final_order |-> EditorOrder(n)],
     [final_order |-> EditorOrder(n)],
     [order_changed |-> FALSE, final_order |-> EditorOrder(n),
      order_change_reason |-> "editor reasoning"],
     [order_changed |-> TRUE, order_change_reason |-> "editor reasoning"],
     [final_order |-> JList(Append(Range(n), 0))],
     [order_changed |-> TRUE, final_order |-> Scalar]}

EditorValues(items) ==
    LET n == Len(items)
    IN  {Scalar}
        \cup {JList(l) : l \in EditorLists(items)}
        \cup {[kind |-> "dict", order_changed |-> TRUE, final_order |-> EditorOrder(n),
               order_change_reason |-> "editor reasoning", review_notes |-> "notes"]}
        \cup {[kind |-> "dict", prompts |-> JList(Polished(items))] @@ f :
                 f \in EditorOrderFields(n)}
        \cup {[kind |-> "dict", prompts |-> JList(l)] : l \in EditorLists(items)}
        \cup {[kind |-> "dict", prompts |-> Scalar]}

EditorOutcomes(items) ==
    {Raise, EmptyText, Garbage} \cup UNION {TextsOf(v) : v \in EditorValues(items)}

(***************************************************************************)
(* State                                                                    *)
(***************************************************************************)
VARIABLES
    motion_sessions,   \* main.py:391  session id -> MotionSessionEntry
    fresh_ids,         \* the values uuid4 can still return (it does not repeat)
    now,               \* time.time()
    GOOGLE_API_KEY,    \* os.environ["GOOGLE_API_KEY"]
    pc,                \* where the /motion/generate call in flight is suspended
    req,               \* its request
    video_analysis,    \* locals of the pipeline function
    raw_plan,          \* the plan as parsed, before normalization
    scene_plan,
    pipeline_state,
    tasks,             \* the writer tasks handed to asyncio.gather
    motion_prompts,    \* motion_prompts / context_prompts after the gather
    editor_out,        \* the JSON the editor text parsed to
    yielded,           \* how the agent run of each singular stage ended
    calls,             \* the agents run for this request, in order
    response,          \* the HTTP response of the last request
    lookup,            \* what the session lookup of the last /motion/refine call saw
    refine_out,        \* the JSON the refine agent's text parsed to
    inflight,          \* the calls that overlap in time: what each holds while suspended
    detached           \* entries deleted from the store that a suspended call still holds

vars == <<motion_sessions, fresh_ids, now, GOOGLE_API_KEY, pc, req, video_analysis,
          raw_plan, scene_plan, pipeline_state, tasks, motion_prompts, editor_out,
          yielded, calls, response, lookup, refine_out, inflight, detached>>

\* the process-wide values and the request, which no pipeline stage assigns
global_vars == <<now, GOOGLE_API_KEY, req>>
store_vars == <<motion_sessions, fresh_ids>>
\* the locals of a /motion/refine call
refine_vars == <<lookup, refine_out>>
\* the calls that overlap in time
overlap_vars == <<inflight, detached>>
\* the locals of a /motion/generate call
pipeline_vars == <<video_analysis, raw_plan, scene_plan, pipeline_state, tasks,
                   motion_prompts, editor_out>>

Pending == [status |-> 0]

\* the calls whose overlap is explored, each with the API key its client sends
CallIds == {"a", "b"}
NewCall == [op |-> "none", phase |-> "new"]
NoCalls == [c \in CallIds |-> NewCall]
NoSessions == [sid \in {} |-> Nil]
HTTPError(status, detail, stage) == [status |-> status, detail |-> detail, stage |-> stage]
NoYield == [video |-> "none", config |-> "none", editor |-> "none", refine |-> "none"]

NumImages == req.n_images
PipelineType == req.pipeline_type

Init ==
    /\ motion_sessions = [sid \in {} |-> Nil]
    /\ fresh_ids = SessionIds
    /\ now = 0
    /\ GOOGLE_API_KEY = "unset"
    /\ pc = "idle"
    /\ req = Nil
    /\ video_analysis = Nil
    /\ raw_plan = Nil
    /\ scene_plan = Nil
    /\ pipeline_state = Nil
    /\ tasks = <<>>
    /\ motion_prompts = Nil
    /\ editor_out = Nil
    /\ yielded = NoYield
    /\ calls = <<>>
    /\ response = Pending
    /\ lookup = Nil
    /\ refine_out = Nil
    /\ inflight = NoCalls
    /\ detached = NoSessions

\* faulty variant: every error is reported as a client error
AbortAsClientError(status, detail, stage) ==
    /\ pc' = "idle"
    /\ response' = HTTPError(400, detail, stage)

\* faulty variant: the stage that failed is awaited again
AbortRetriesStage(status, detail, stage) ==
    /\ pc' = pc
    /\ response' = HTTPError(status, detail, stage)

\* the raise HTTPException(...) statements and main.py:773-777 / 1077-1081:
\* the request ends with an error response; stage names where it was raised
Abort(status, detail, stage) ==
    /\ pc' = "idle"
    /\ response' = HTTPError(status, detail, stage)

\* faulty variant: the planner is awaited again after a plan without scenes
InvalidPlanFormatRetried ==
    /\ pc' = "await_config"
    /\ response' = Pending

\* main.py:568-569 / 878-879: the plan is no dict with a scenes key
InvalidPlanFormat ==
    Abort(500,
          IF PipelineType = MC
          THEN "MC Config agent returned invalid scene plan format"
          ELSE "Config agent returned invalid scene plan format",
          "config")

\* main.py:465-494 _run_agent is called once at each call site
Invoke(agent_name, idx) == calls' = Append(calls, <<agent_name, idx>>)

\* how an agent run ended, as the stage sees it
OutcomeKind(o) ==
    IF o = Raise THEN "raised"
    ELSE IF o.empty THEN "empty"
    ELSE IF parse_json_from_text(o) = ValueError THEN "unparseable"
    ELSE "parsed"

\* faulty variant: a request that fails validation is answered as a server error
RejectRequestAsServerError(detail) ==
    /\ Abort(500, detail, "validation")
    /\ calls' = <<>>
    /\ UNCHANGED GOOGLE_API_KEY

\* main.py:1097-1105: the request is refused before the API key is set and
\* before a pipeline is entered
RejectRequest(detail) ==
    /\ Abort(400, detail, "validation")
    /\ calls' = <<>>
    /\ UNCHANGED GOOGLE_API_KEY

\* faulty variant: the missing Motion Control input is reported from inside the
\* pipeline's try block, hence as a server error
RejectMotionControlAsServerError(detail) ==
    /\ Abort(500, detail, "validation")
    /\ calls' = <<>>

\* main.py:791-794: the Motion Control pipeline refuses a request without the
\* reference video or the character orientation before its try block
RejectMotionControl(detail) ==
    /\ Abort(400, detail, "validation")
    /\ calls' = <<>>

\* faulty variant: Motion Control starts with the planner
FirstStageSkipsVideo(ptype) ==
    [pc |-> "await_config", agent |-> IF ptype = MC THEN "mc_config_agent" ELSE "config_agent"]

\* main.py:512-533 (Pro-I2V: the planner runs first) and main.py:803-830
\* (Motion Control: the video analyzer runs first)
FirstStage(ptype) ==
    IF ptype = MC
    THEN [pc |-> "await_video", agent |-> "video_analyzer"]
    ELSE [pc |-> "await_config", agent |-> "config_agent"]

(***************************************************************************)
(* POST /motion/generate up to the first agent run                          *)
(***************************************************************************)
\* main.py:1088-1115 motion_generate, with main.py:791-794 (the Motion Control
\* gate) and the start of the first stage (main.py:515-533 / 810-819)
motion_generate(r) ==
    /\ pc = "idle"
    /\ UNCHANGED <<refine_vars, overlap_vars>>
    /\ motion_sessions' = cleanup_motion_sessions(motion_sessions, now)
    /\ req' = r
    /\ video_analysis' = Nil
    /\ raw_plan' = Nil
    /\ scene_plan' = Nil
    /\ pipeline_state' = Nil
    /\ tasks' = <<>>
    /\ motion_prompts' = Nil
    /\ editor_out' = Nil
    /\ yielded' = NoYield
    /\ UNCHANGED <<fresh_ids, now>>
    /\ IF r.n_images = 0
       THEN RejectRequest("At least one image is required")
       ELSE IF r.n_images > MaxImages
       THEN RejectRequest("Maximum 10 images allowed")
       ELSE IF r.style_preset \notin STYLE_PRESETS
       THEN RejectRequest("Invalid style preset")
       ELSE /\ GOOGLE_API_KEY' = r.api_key
            /\ IF r.pipeline_type = MC /\ ~r.has_video
               THEN RejectMotionControl("Motion Control requires global_reference_video_base64")
               ELSE IF r.pipeline_type = MC /\ r.character_orientation = "none"
               THEN RejectMotionControl("Motion Control requires character_orientation")
               ELSE /\ pc' = FirstStage(r.pipeline_type).pc
                    /\ response' = Pending
                    /\ calls' = <<<<FirstStage(r.pipeline_type).agent, -1>>>>

(***************************************************************************)
(* Motion Control stage 1: the video analyzer returns                       *)
(***************************************************************************)
\* main.py:819-854
video_analyzer_returns(o) ==
    /\ pc = "await_video"
    /\ UNCHANGED <<refine_vars, overlap_vars>>
    /\ yielded' = [yielded EXCEPT !.video = OutcomeKind(o)]
    /\ UNCHANGED <<global_vars, store_vars, raw_plan, scene_plan, pipeline_state, tasks,
                   motion_prompts, editor_out>>
    /\ IF o = Raise
       THEN /\ Abort(500, "exception", "video")
            /\ UNCHANGED <<video_analysis, calls>>
       ELSE IF o.empty
       THEN /\ Abort(500, "Video analyzer returned no response", "video")
            /\ UNCHANGED <<video_analysis, calls>>
       ELSE IF parse_json_from_text(o) = ValueError
       THEN /\ Abort(500, "exception", "video")
            /\ UNCHANGED <<video_analysis, calls>>
       ELSE IF ~IsDict(parse_json_from_text(o))
       THEN \* video_analysis.get raises
            /\ Abort(500, "exception", "video")
            /\ video_analysis' = parse_json_from_text(o)
            /\ UNCHANGED calls
       ELSE /\ video_analysis' = parse_json_from_text(o)
            /\ pc' = "await_config"
            /\ Invoke("mc_config_agent", -1)
            /\ UNCHANGED response

(***************************************************************************)
(* Config stage: the planner returns; the plan is normalized, the pipeline  *)
(* state is built and the writer tasks are created                          *)
(***************************************************************************)
\* state_seen is the pipeline state the task's writer agent was built from,
\* settled_first tells which task was the first to complete
NewTask == [st |-> "created", seq_pos |-> -1, scene_data |-> Nil, state_seen |-> Nil,
            outcome |-> "none", parsed |-> Nil, result |-> Nil, settled_first |-> FALSE]

\* main.py:533-636 (Pro-I2V) and main.py:854-940 (Motion Control)
config_returns(o) ==
    /\ pc = "await_config"
    /\ UNCHANGED <<refine_vars, overlap_vars>>
    /\ yielded' = [yielded EXCEPT !.config = OutcomeKind(o)]
    /\ UNCHANGED <<global_vars, store_vars, video_analysis, motion_prompts, editor_out,
                   calls>>
    /\ IF o = Raise
       THEN /\ Abort(500, "exception", "config")
            /\ UNCHANGED <<raw_plan, scene_plan, pipeline_state, tasks>>
       ELSE IF o.empty
       THEN /\ Abort(500,
                     IF PipelineType = MC
                     THEN "MC Config agent returned no response"
                     ELSE "Config agent returned no response",
                     "config")
            /\ UNCHANGED <<raw_plan, scene_plan, pipeline_state, tasks>>
       ELSE IF parse_json_from_text(o) = ValueError
       THEN /\ Abort(500, "exception", "config")
            /\ UNCHANGED <<raw_plan, scene_plan, pipeline_state, tasks>>
       ELSE LET plan == parse_json_from_text(o)
            IN  /\ raw_plan' = plan
                /\ IF ~(IsDict(plan) /\ Has(plan, "scenes"))
                   THEN /\ InvalidPlanFormat
                        /\ UNCHANGED <<scene_plan, pipeline_state, tasks>>
                   ELSE IF ~IsList(plan.scenes)
                   THEN \* len() or append raises
                        /\ Abort(500, "exception", "config")
                        /\ UNCHANGED <<scene_plan, pipeline_state, tasks>>
                   ELSE LET normalized == NormalizePlan(plan, NumImages, PipelineType)
                        IN  /\ scene_plan' = normalized
                            /\ pipeline_state' =
                                   IF PipelineType = MC
                                   THEN build_mc_pipeline_state(video_analysis, normalized,
                                                                req.style_preset)
                                   ELSE build_pipeline_state(normalized, req.style_preset)
                            /\ tasks' = [i \in 1..NumImages |-> NewTask]
                            /\ pc' = "writers"
                            /\ UNCHANGED response

(***************************************************************************)
(* Writers stage: asyncio.gather over one task per scene                    *)
(***************************************************************************)
AllStarted == \A j \in 1..Len(tasks) : tasks[j].st # "created"
\* faulty variant: gather returns as soon as one task has raised
AllSettledOrOneRaised ==
    \/ \A j \in 1..Len(tasks) : tasks[j].st = "done"
    \/ \E j \in 1..Len(tasks) : tasks[j].result = Exc

\* main.py:636 / 940: gather(..., return_exceptions=True) returns when every
\* task has settled
AllSettled == \A j \in 1..Len(tasks) : tasks[j].st = "done"
NumSettled == Cardinality({j \in 1..Len(tasks) : tasks[j].st = "done"})

\* faulty variant: the result of the task that completed first is listed first,
\* the others follow in the order of creation
GatherResultsAsCompleted(ts) ==
    LET first == CHOOSE i \in 1..Len(ts) : ts[i].settled_first
    IN  [k \in 1..Len(ts) |->
            IF k = 1 THEN ts[first].result
            ELSE IF k <= first THEN ts[k - 1].result
            ELSE ts[k].result]

\* main.py:636 / 940: asyncio.gather lists the results in the order of the
\* awaitables it was given, whatever the order of completion
GatherResults(ts) == [i \in 1..Len(ts) |-> ts[i].result]

WriterName == IF PipelineType = MC THEN "mc_context_writer" ELSE "motion_writer"
EditorName == IF PipelineType = MC THEN "mc_editor_agent" ELSE "editor_agent"

\* main.py:595-614 (write_motion_prompt) and main.py:900-921
\* (write_context_prompt) up to the await of the agent run.  The tasks take
\* their first step in the order gather created them.
writer_start(i) ==
    /\ pc = "writers"
    /\ UNCHANGED <<refine_vars, overlap_vars>>
    /\ tasks[i].st = "created"
    /\ \A j \in 1..(i - 1) : tasks[j].st # "created"
    /\ UNCHANGED <<global_vars, store_vars, pc, video_analysis, raw_plan, scene_plan,
                   pipeline_state, motion_prompts, editor_out, yielded, response>>
    /\ IF ~IsList(scene_plan.recommended_order)
       THEN \* recommended_order.index raises something other than ValueError
            /\ tasks' = [tasks EXCEPT ![i].st = "done", ![i].outcome = "raised",
                                      ![i].result = Exc,
                                      ![i].settled_first = (NumSettled = 0)]
            /\ UNCHANGED calls
       ELSE /\ tasks' = [tasks EXCEPT
                  ![i].st = "awaiting",
                  ![i].seq_pos = SequencePosition(scene_plan.recommended_order.items, i - 1),
                  ![i].scene_data = SceneData(pipeline_state, i - 1),
                  ![i].state_seen = pipeline_state]
            /\ Invoke(WriterName, i - 1)

\* main.py:614-633 / 921-937: the agent run of task i settles.  No task resumes
\* before every task has taken its first step.
writer_returns(i, o) ==
    /\ pc = "writers"
    /\ UNCHANGED <<refine_vars, overlap_vars>>
    /\ AllStarted
    /\ tasks[i].st = "awaiting"
    /\ tasks' = [tasks EXCEPT
           ![i].st = "done",
           ![i].outcome = OutcomeKind(o),
           ![i].parsed = IF OutcomeKind(o) = "parsed" THEN parse_json_from_text(o) ELSE Nil,
           ![i].result = WriterTaskResult(o, i - 1, PipelineType),
           ![i].settled_first = (NumSettled = 0)]
    /\ UNCHANGED <<global_vars, store_vars, pc, video_analysis, raw_plan, scene_plan,
                   pipeline_state, motion_prompts, editor_out, yielded, calls, response>>

\* faulty variant: the editor's notes are entered together with the writer outputs
AddWriterOutputsAndNotes(state, collected, ptype) ==
    ("editor_notes" :> "") @@
        (IF ptype = MC THEN "context_prompts" ELSE "motion_prompts") :> collected @@ state

\* main.py:668 / 967: the collected artifacts are entered into the pipeline state
AddWriterOutputs(state, collected, ptype) ==
    IF ptype = MC
    THEN ("context_prompts" :> collected) @@ state
    ELSE ("motion_prompts" :> collected) @@ state

\* main.py:636-685 (Pro-I2V) and main.py:940-989 (Motion Control): gather
\* returns, the results are collected, the state is updated, the editor runs
writers_join ==
    /\ pc = "writers"
    /\ UNCHANGED <<refine_vars, overlap_vars>>
    /\ AllSettled
    /\ UNCHANGED <<global_vars, store_vars, video_analysis, raw_plan, scene_plan, tasks,
                   editor_out, yielded>>
    /\ LET raw == GatherResults(tasks)
           collected == CollectWriterResults(raw, PipelineType)
       IN  IF collected = Exc
           THEN /\ Abort(500, "exception", "writers")
                /\ UNCHANGED <<pipeline_state, motion_prompts, calls>>
           ELSE /\ motion_prompts' = collected
                /\ pipeline_state' = AddWriterOutputs(pipeline_state, collected, PipelineType)
                /\ pc' = "await_editor"
                /\ Invoke(EditorName, -1)
                /\ UNCHANGED response

(***************************************************************************)
(* Editor stage, session write and response                                 *)
(***************************************************************************)
\* main.py:765-771 / 1068-1075
MotionGenerateResponse(session_id, prompt_items, final_order, order_reasoning, pipeline_type) ==
    [status |-> 200,
     session_id |-> session_id,
     prompts |-> prompt_items,
     recommended_order |-> final_order,
     order_reasoning |-> order_reasoning,
     pipeline_type |-> pipeline_type]

\* main.py:685-777 (Pro-I2V) and main.py:989-1081 (Motion Control)
editor_returns(o) ==
    /\ pc = "await_editor"
    /\ UNCHANGED <<refine_vars, overlap_vars>>
    /\ yielded' = [yielded EXCEPT !.editor = OutcomeKind(o)]
    /\ editor_out' = IF OutcomeKind(o) = "parsed" THEN parse_json_from_text(o) ELSE Nil
    /\ UNCHANGED <<global_vars, video_analysis, raw_plan, scene_plan, motion_prompts, calls>>
    \* the order of completion is of no interest once the editor has run
    /\ tasks' = [j \in 1..Len(tasks) |-> [tasks[j] EXCEPT !.settled_first = FALSE]]
    /\ IF o = Raise
       THEN /\ Abort(500, "exception", "editor")
            /\ UNCHANGED <<store_vars, pipeline_state>>
       ELSE LET res == ResolveEditor(o, motion_prompts, scene_plan, pipeline_state)
            IN  /\ pipeline_state' = res.pipeline_state
                /\ IF PromptItemsRaise(res.final_prompts)
                   THEN /\ Abort(500, "exception", "editor")
                        /\ UNCHANGED store_vars
                   ELSE \E sid \in fresh_ids :
                        /\ fresh_ids' = fresh_ids \ {sid}
                        /\ motion_sessions' = (sid :> MotionSessionEntry(
                               sid, res.final_prompts, scene_plan, req.style_preset,
                               PipelineType, res.pipeline_state, res.final_order,
                               IF PipelineType = MC THEN video_analysis ELSE Nil,
                               IF PipelineType = MC THEN req.character_orientation ELSE "none",
                               IF PipelineType = MC THEN req.keep_original_sound ELSE FALSE,
                               now)) @@ motion_sessions
                        /\ IF ResponseOrderValid(res.final_order)
                           THEN /\ pc' = "idle"
                                /\ response' = MotionGenerateResponse(
                                       sid, BuildPromptItems(res.final_prompts),
                                       res.final_order, res.order_reasoning, PipelineType)
                           ELSE \* MotionGenerateResponse(...) fails validation
                                Abort(500, "exception", "response")

(***************************************************************************)
(* Specification                                                            *)
(***************************************************************************)
Next ==
    \* requests are explored while uuid4 values remain to be issued
    \/ fresh_ids # {} /\ \E r \in Requests : motion_generate(r)
    \/ \E o \in VideoOutcomes : video_analyzer_returns(o)
    \/ pc = "await_config" /\ \E o \in ConfigOutcomes(NumImages) : config_returns(o)
    \/ \E i \in 1..Len(tasks) : writer_start(i)
    \/ \E i \in 1..Len(tasks) : \E o \in WriterOutcomes(i - 1) : writer_returns(i, o)
    \/ writers_join
    \/ pc = "await_editor" /\ \E o \in EditorOutcomes(motion_prompts.items) : editor_returns(o)

Spec == Init /\ [][Next]_vars

(***************************************************************************)
(* POST /motion/refine                                                      *)
(***************************************************************************)
\* the values of time.time() that are explored: up to one TTL and a second
\* past it
Times == {0, 1, SESSION_TTL, SESSION_TTL + 1}

\* MotionRefineRequest.scene_index = None
NoScene == -1

\* Python truthiness of a JSON value: an empty list and None are false
Truthy(v) == IF IsList(v) THEN Len(v.items) > 0 ELSE v # Nil

\* faulty variant: an unknown session is reported as a server error
SessionNotFoundAsServerError ==
    Abort(500, "Motion session not found or expired", "lookup")

\* main.py:1130-1132
SessionNotFound ==
    Abort(404, "Motion session not found or expired", "lookup")

\* main.py:1139-1153: the agent chosen by the stored pipeline type
RefineAgentName(entry) ==
    IF entry.pipeline_type = MC THEN "mc_motion_refine" ELSE "motion_refine"

\* faulty variant: the response always names the Pro-I2V pipeline
RefineResponseAlwaysPro(entry, session_id, final_prompts, final_order) ==
    MotionGenerateResponse(session_id, BuildPromptItems(final_prompts), final_order, Nil, PRO)

\* main.py:1207-1221: the response of a refine call; order_reasoning is not set
RefineResponse(entry, session_id, final_prompts, final_order) ==
    MotionGenerateResponse(session_id, BuildPromptItems(final_prompts), final_order, Nil,
                           IF entry.pipeline_type = MC THEN MC ELSE PRO)

\* faulty variant: a failed refine answers with the previous artifacts
RefineFailureKeepsPrevious(entry, detail, stage) ==
    [entry |-> entry,
     response |-> RefineResponse(entry, entry.session_id, entry.prompts, entry.final_order)]

\* main.py:1163, 1176, 1223-1226: the call ends with a server error; entry is
\* the session entry as the call leaves it
RefineFailure(entry, detail, stage) ==
    [entry |-> entry, response |-> HTTPError(500, detail, stage)]

\* faulty variant: the returned list is not written to the session
StoreRefinedKeepsOld(entry, final_prompts) == entry

\* faulty variant: the returned list is also entered into the stored pipeline state
StoreRefinedUpdatesState(entry, final_prompts) ==
    [entry EXCEPT !.prompts = final_prompts,
                  !.pipeline_state = ("motion_prompts" :> final_prompts) @@ entry.pipeline_state]

\* main.py:1204  entry.prompts = final_prompts
StoreRefined(entry, final_prompts) == [entry EXCEPT !.prompts = final_prompts]

\* faulty variant: a final_order is adopted without the order_changed flag
AdoptOrderUnflagged(entry, result, final_order) ==
    [entry EXCEPT !.final_order = final_order]

\* main.py:1170-1171  if result.get("order_changed") and final_order
AdoptOrder(entry, result, final_order) ==
    IF Get(result, "order_changed", FALSE) /\ Truthy(final_order)
    THEN [entry EXCEPT !.final_order = final_order]
    ELSE entry

\* main.py:1160-1226: what the call does with the outcome o of the refine
\* agent: the session entry it leaves and the response it gives
RefineStep(o, entry, session_id) ==
    IF o = Raise THEN RefineFailure(entry, "exception", "refine")
    ELSE IF o.empty THEN RefineFailure(entry, "Refine agent returned no response", "refine")
    ELSE LET result == parse_json_from_text(o)
         IN  IF result = ValueError THEN RefineFailure(entry, "exception", "refine")
             ELSE IF ~(IsDict(result) /\ Has(result, "prompts")) /\ ~IsList(result)
             THEN RefineFailure(entry, "Refine agent returned invalid format", "refine")
             ELSE LET final_prompts == IF IsDict(result) THEN result.prompts ELSE result
                      final_order == IF IsDict(result)
                                     THEN Get(result, "final_order", entry.final_order)
                                     ELSE entry.final_order
                      ordered == IF IsDict(result)
                                 THEN AdoptOrder(entry, result, final_order)
                                 ELSE entry
                  IN  IF PromptItemsRaise(final_prompts)
                      THEN RefineFailure(ordered, "exception", "items")
                      ELSE IF ~ResponseOrderValid(final_order)
                      THEN RefineFailure(StoreRefined(ordered, final_prompts),
                                         "exception", "response")
                      ELSE [entry |-> StoreRefined(ordered, final_prompts),
                            response |-> RefineResponse(entry, session_id, final_prompts,
                                                        final_order)]

\* sessions as successful generate runs leave them
GeneratedPlan(ptype) ==
    NormalizePlan([kind |-> "dict", scenes |-> JList(PlannerScenes(MaxN)),
                   order_reasoning |-> "planner reasoning"], MaxN, ptype)
GeneratedPrompts == JList(Polished([i \in 1..MaxN |-> WriterArtifact(i - 1, i - 1)]))
GeneratedSession(sid, ptype) ==
    MotionSessionEntry(
        sid, GeneratedPrompts, GeneratedPlan(ptype), "fashion_walk", ptype,
        IF ptype = MC
        THEN ("context_prompts" :> GeneratedPrompts)
                 @@ build_mc_pipeline_state(VideoAnalysis, GeneratedPlan(ptype), "fashion_walk")
        ELSE ("motion_prompts" :> GeneratedPrompts)
                 @@ build_pipeline_state(GeneratedPlan(ptype), "fashion_walk"),
        GeneratedPlan(ptype).recommended_order,
        IF ptype = MC THEN VideoAnalysis ELSE Nil,
        IF ptype = MC THEN "image" ELSE "none",
        IF ptype = MC THEN TRUE ELSE FALSE,
        0)
GeneratedStores ==
    {("sid1" :> GeneratedSession("sid1", PRO)), ("sid2" :> GeneratedSession("sid2", MC))}

\* MotionRefineRequest (main.py:424-428)
RefineRequests ==
    [api_key : ApiKeys, session_id : {"sid1", "sid2", "unknown"}, scene_index : {NoScene, 0}]

\* the agent's rewrite of the artifact at position k (1-based)
RefinedAt(items, k) == [items EXCEPT ![k].body = "refined"]

RefineLists(items) ==
    IF Len(items) = 0 THEN {items}
    ELSE {items, <<Scalar>>,
          <<[items[1] EXCEPT !.typed = FALSE]>>}
             \cup {RefinedAt(items, k) : k \in 1..Len(items)}
             \cup (IF Len(items) = MaxN THEN {SubSeq(items, 1, Len(items) - 1)} ELSE {})

\* the order a refine agent proposes
RefineOrders == {JList(Reverse(Range(MaxN)))}

\* the order fields a refine object may carry next to its prompts
RefineOrderFields ==
    {[review_notes |-> "notes"],
     [order_changed |-> TRUE],
     [order_changed |-> TRUE, final_order |-> JList(<<>>)],
     [order_changed |-> TRUE, final_order |-> Scalar],
     [final_order |-> Scalar]}
        \cup {[order_changed |-> TRUE, final_order |-> ord] : ord \in RefineOrders}
        \cup {[order_changed |-> FALSE, final_order |-> ord] : ord \in RefineOrders}
        \cup {[final_order |-> ord] : ord \in RefineOrders}

RefineValues(items) ==
    LET first == IF Len(items) = 0 THEN items ELSE RefinedAt(items, 1)
        flagged == [order_changed |-> TRUE, final_order |-> JList(Reverse(Range(MaxN)))]
    IN  {Scalar, [kind |-> "dict"] @@ flagged}
        \cup {JList(l) : l \in RefineLists(items)}
        \cup {[kind |-> "dict", prompts |-> JList(first)] @@ f : f \in RefineOrderFields}
        \cup {[kind |-> "dict", prompts |-> JList(l)] : l \in RefineLists(items)}
        \cup {[kind |-> "dict", prompts |-> JList(<<Scalar>>)] @@ flagged,
              [kind |-> "dict", prompts |-> Scalar]}

RefineOutcomes(items) ==
    {Raise, EmptyText, Garbage} \cup UNION {TextsOf(v) : v \in RefineValues(items)}

\* the clock advances
Tick(t) ==
    /\ t > now
    /\ now' = t
    /\ UNCHANGED <<store_vars, GOOGLE_API_KEY, pc, req, pipeline_vars, yielded, calls,
                   response, refine_vars, overlap_vars>>

\* main.py:1122-1160 motion_refine up to the agent run
motion_refine(r) ==
    /\ pc = "idle"
    /\ UNCHANGED <<fresh_ids, now, pipeline_vars, overlap_vars>>
    /\ req' = r
    /\ yielded' = NoYield
    /\ refine_out' = Nil
    /\ LET swept == cleanup_motion_sessions(motion_sessions, now)
           hit == r.session_id \in DOMAIN swept
       IN  /\ lookup' = [session_id |-> r.session_id, at |-> now,
                         store |-> motion_sessions, hit |-> hit]
           /\ IF ~hit
              THEN /\ motion_sessions' = swept
                   /\ SessionNotFound
                   /\ calls' = <<>>
                   /\ UNCHANGED GOOGLE_API_KEY
              ELSE /\ motion_sessions' = [swept EXCEPT ![r.session_id].last_access = now]
                   /\ GOOGLE_API_KEY' = r.api_key
                   /\ calls' = <<<<RefineAgentName(swept[r.session_id]), -1>>>>
                   /\ pc' = "await_refine"
                   /\ response' = Pending

\* main.py:1160-1226: the refine agent returns
refine_returns(o) ==
    /\ pc = "await_refine"
    /\ UNCHANGED <<fresh_ids, global_vars, pipeline_vars, calls, lookup, overlap_vars>>
    /\ yielded' = [yielded EXCEPT !.refine = OutcomeKind(o)]
    /\ refine_out' = IF OutcomeKind(o) = "parsed" THEN parse_json_from_text(o) ELSE Nil
    /\ LET step == RefineStep(o, motion_sessions[req.session_id], req.session_id)
       IN  /\ motion_sessions' = [motion_sessions EXCEPT ![req.session_id] = step.entry]
           /\ pc' = "idle"
           /\ response' = step.response

RefineInit ==
    /\ motion_sessions \in GeneratedStores
    /\ fresh_ids = {}
    /\ now = 0
    /\ GOOGLE_API_KEY = "unset"
    /\ pc = "idle"
    /\ req = Nil
    /\ video_analysis = Nil
    /\ raw_plan = Nil
    /\ scene_plan = Nil
    /\ pipeline_state = Nil
    /\ tasks = <<>>
    /\ motion_prompts = Nil
    /\ editor_out = Nil
    /\ yielded = NoYield
    /\ calls = <<>>
    /\ response = Pending
    /\ lookup = Nil
    /\ refine_out = Nil
    /\ inflight = NoCalls
    /\ detached = NoSessions

RefineNext ==
    \/ \E t \in Times : Tick(t)
    \/ \E r \in RefineRequests : motion_refine(r)
    \/ /\ pc = "await_refine"
       /\ \E o \in RefineOutcomes(motion_sessions[req.session_id].prompts.items) :
              refine_returns(o)

RefineSpec == RefineInit /\ [][RefineNext]_vars

(***************************************************************************)
(* The service with both endpoints, one call at a time, under the           *)
(* assumption that every agent run settles and that the event loop runs     *)
(* every task that is ready                                                 *)
(***************************************************************************)
ServiceInit == Init \/ RefineInit

ServiceNext ==
    \/ Next
    \* refine calls are explored on the sessions of GeneratedStores
    \/ fresh_ids = {} /\ scene_plan = Nil /\ \E r \in RefineRequests : motion_refine(r)
    \/ /\ pc = "await_refine"
       /\ \E o \in RefineOutcomes(motion_sessions[req.session_id].prompts.items) :
              refine_returns(o)

ServiceSpec == ServiceInit /\ [][ServiceNext]_vars

\* a step that ends an agent run or runs a task that is ready
SettleStep ==
    \/ \E o \in VideoOutcomes : video_analyzer_returns(o)
    \/ pc = "await_config" /\ \E o \in ConfigOutcomes(NumImages) : config_returns(o)
    \/ \E i \in 1..Len(tasks) : writer_start(i)
    \/ \E i \in 1..Len(tasks) : \E o \in WriterOutcomes(i - 1) : writer_returns(i, o)
    \/ writers_join
    \/ pc = "await_editor" /\ \E o \in EditorOutcomes(motion_prompts.items) : editor_returns(o)
    \/ /\ pc = "await_refine"
       /\ \E o \in RefineOutcomes(motion_sessions[req.session_id].prompts.items) :
              refine_returns(o)

\* every awaited agent run settles (_run_agent, main.py:465-494) and asyncio
\* resumes the coroutine that awaits it; the tasks gather created are run.
\* A call in progress is always at exactly one of these steps.
AgentsSettle == WF_vars(SettleStep)

\* the generate requests of the runs whose termination is explored
FairN == 1
FairRequests == {r \in Requests : r.n_images <= FairN \/ r.n_images > MaxImages}

FairNext ==
    \/ fresh_ids # {} /\ \E r \in FairRequests : motion_generate(r)
    \/ fresh_ids = {} /\ scene_plan = Nil /\ \E r \in RefineRequests : motion_refine(r)
    \/ SettleStep

FairSpec == ServiceInit /\ [][FairNext]_vars /\ AgentsSettle

(***************************************************************************)
(* Calls that overlap in time.  The handlers are coroutines on one event    *)
(* loop: a call runs without interruption up to its next await of an agent  *)
(* run, and any other call may run while it is suspended there.  A generate *)
(* run is followed stage by stage, each stage either failing or not.        *)
(***************************************************************************)
\* what distinguishes the two clients
OverlapKey(c) == IF c = "a" THEN "key1" ELSE "key2"
OverlapScene(c) == IF c = "a" THEN 0 ELSE 1
\* the uuid4 drawn by the call (main.py:746 / 1046)
NewId(c) == IF c = "a" THEN "sid3" ELSE "sid4"

OverlapRefineRequests(c) ==
    [api_key : {OverlapKey(c)}, session_id : {"sid1", "sid2"}, scene_index : {OverlapScene(c)}]

OverlapGenerateRequests(c) ==
    {[r EXCEPT !.api_key = OverlapKey(c)] :
        r \in {q \in Requests : /\ q.pipeline_type = PRO
                                 /\ q.style_preset \in STYLE_PRESETS
                                 /\ q.n_images \in {0, MaxN}}}

\* the agents a Pro-I2V run invokes, stage by stage (main.py:533, 636, 685);
\* the writer tasks take their first steps one after the other without any
\* other call running in between
OverlapStages == <<"config_agent", "motion_writer", "editor_agent">>
StageOutcomes == {"ok", "failed"}

\* what the refine agent of call c answers to the artifacts it was shown
OverlapRefineOutcomes(c, shown) ==
    LET refined == JList(RefinedAt(shown.items, OverlapScene(c) + 1))
    IN  {Raise,
         Text(refined, NoJson, NoJson),
         Text([kind |-> "dict", prompts |-> refined, order_changed |-> TRUE,
               final_order |-> JList(Reverse(Range(MaxN)))], NoJson, NoJson)}

\* main.py:394-399 as run by a call: the store after the sweep, and the
\* deleted entries, which calls suspended on them still reference
SweptStore == cleanup_motion_sessions(motion_sessions, now)
SweptAway == DOMAIN motion_sessions \ DOMAIN SweptStore
DetachedAfterSweep ==
    [sid \in SweptAway \cup DOMAIN detached |->
        IF sid \in SweptAway THEN motion_sessions[sid] ELSE detached[sid]]

\* main.py:1122-1160: a /motion/refine call up to its await of the agent run
refine_enters(c, r) ==
    /\ inflight[c].phase = "new"
    /\ detached' = DetachedAfterSweep
    /\ IF r.session_id \notin DOMAIN SweptStore
       THEN /\ motion_sessions' = SweptStore
            /\ UNCHANGED GOOGLE_API_KEY
            /\ inflight' = [inflight EXCEPT ![c] =
                   [op |-> "refine", phase |-> "done", req |-> r, keys |-> <<>>,
                    response |-> HTTPError(404, "Motion session not found or expired",
                                           "lookup")]]
       ELSE /\ motion_sessions' = [SweptStore EXCEPT ![r.session_id].last_access = now]
            /\ GOOGLE_API_KEY' = r.api_key
            /\ inflight' = [inflight EXCEPT ![c] =
                   [op |-> "refine", phase |-> "awaiting", req |-> r,
                    shown |-> SweptStore[r.session_id].prompts,
                    keys |-> <<<<RefineAgentName(SweptStore[r.session_id]), r.api_key>>>>]]
    /\ UNCHANGED <<fresh_ids, now, pc, req, pipeline_vars, yielded, calls, response,
                   refine_vars>>

\* main.py:1160-1226: the refine agent of call c returns; entry is the object
\* the call looked up, whether or not the store still holds it
refine_leaves(c, o) ==
    /\ inflight[c].op = "refine"
    /\ inflight[c].phase = "awaiting"
    /\ LET sid == inflight[c].req.session_id
           stored == sid \in DOMAIN motion_sessions
           entry == IF stored THEN motion_sessions[sid] ELSE detached[sid]
           step == RefineStep(o, entry, sid)
       IN  /\ IF stored
              THEN /\ motion_sessions' = [motion_sessions EXCEPT ![sid] = step.entry]
                   /\ UNCHANGED detached
              ELSE /\ detached' = [detached EXCEPT ![sid] = step.entry]
                   /\ UNCHANGED motion_sessions
           /\ inflight' = [inflight EXCEPT ![c] =
                  [op |-> "refine", phase |-> "done", req |-> inflight[c].req,
                   shown |-> inflight[c].shown, keys |-> inflight[c].keys,
                   found |-> entry.prompts, left |-> step.entry.prompts,
                   in_store |-> stored, response |-> step.response]]
    /\ UNCHANGED <<fresh_ids, now, GOOGLE_API_KEY, pc, req, pipeline_vars, yielded, calls,
                   response, refine_vars>>

\* main.py:1088-1115 and 512-533: a /motion/generate call up to its await of
\* the first agent run
generate_enters(c, r) ==
    /\ inflight[c].phase = "new"
    /\ detached' = DetachedAfterSweep
    /\ motion_sessions' = SweptStore
    /\ IF r.n_images = 0
       THEN /\ UNCHANGED GOOGLE_API_KEY
            /\ inflight' = [inflight EXCEPT ![c] =
                   [op |-> "generate", phase |-> "done", req |-> r, keys |-> <<>>,
                    response |-> HTTPError(400, "At least one image is required",
                                           "validation")]]
       ELSE /\ GOOGLE_API_KEY' = r.api_key
            /\ inflight' = [inflight EXCEPT ![c] =
                   [op |-> "generate", phase |-> "awaiting", req |-> r, stage |-> 1,
                    keys |-> <<<<OverlapStages[1], r.api_key>>>>]]
    /\ UNCHANGED <<fresh_ids, now, pc, req, pipeline_vars, yielded, calls, response,
                   refine_vars>>

\* main.py:533-777: the stage call c awaits ends; a failed planner or editor
\* ends the run (main.py:773-777), failed writers are replaced (639-662); the
\* next stage's agents run with the API key the environment holds by then;
\* after the editor the session is stored under a new id (746-755)
generate_stage(c, outcome) ==
    /\ inflight[c].op = "generate"
    /\ inflight[c].phase = "awaiting"
    /\ UNCHANGED <<fresh_ids, now, GOOGLE_API_KEY, detached, pc, req, pipeline_vars, yielded,
                   calls, response, refine_vars>>
    /\ LET k == inflight[c].stage
       IN  IF outcome = "failed" /\ OverlapStages[k] # "motion_writer"
           THEN /\ inflight' = [inflight EXCEPT ![c] =
                       [op |-> "generate", phase |-> "done", req |-> inflight[c].req,
                        keys |-> inflight[c].keys,
                        response |-> HTTPError(500, "exception", OverlapStages[k])]]
                /\ UNCHANGED motion_sessions
           ELSE IF k < Len(OverlapStages)
           THEN /\ inflight' = [inflight EXCEPT ![c].stage = k + 1,
                                                ![c].keys = Append(@, <<OverlapStages[k + 1],
                                                                        GOOGLE_API_KEY>>)]
                /\ UNCHANGED motion_sessions
           ELSE /\ motion_sessions' =
                       (NewId(c) :> [GeneratedSession(NewId(c), PRO) EXCEPT !.last_access = now])
                           @@ motion_sessions
                /\ inflight' = [inflight EXCEPT ![c] =
                       [op |-> "generate", phase |-> "done", req |-> inflight[c].req,
                        keys |-> inflight[c].keys,
                        response |-> [status |-> 200, session_id |-> NewId(c)]]]

OverlapInit == RefineInit

OverlapNext ==
    \/ \E t \in Times : Tick(t)
    \/ \E c \in CallIds : \E r \in OverlapRefineRequests(c) : refine_enters(c, r)
    \/ \E c \in CallIds :
          /\ inflight[c].op = "refine" /\ inflight[c].phase = "awaiting"
          /\ \E o \in OverlapRefineOutcomes(c, inflight[c].shown) : refine_leaves(c, o)
    \/ \E c \in CallIds : \E r \in OverlapGenerateRequests(c) : generate_enters(c, r)
    \/ \E c \in CallIds : \E outcome \in StageOutcomes : generate_stage(c, outcome)

OverlapSpec == OverlapInit /\ [][OverlapNext]_vars

(***************************************************************************)
(* Properties                                                               *)
(***************************************************************************)
Succeeded == pc = "idle" /\ response.status = 200
Stored == DOMAIN motion_sessions
FailedKinds == {"raised", "empty", "unparseable"}
EditorInvoked == \E k \in 1..Len(calls) : calls[k] = <<EditorName, -1>>
LastCall == calls[Len(calls)][1]
EndedInStage == Get(response, "stage", "none")
IndexSet(items) == {Get(items[i], "scene_index", -1) : i \in 1..Len(items)}
\* the plan, if one was made, carries a list as its recommended_order
PlanOrderIsList == scene_plan = Nil \/ IsList(scene_plan.recommended_order)

\* C1: every successful generate run for N images returns and stores exactly N
\* artifacts whose scene_index values are exactly 0..N-1, whatever the writers
\* and the editor returned.  (Stated as claimed; the code does not ensure it.)
C1_FinalArtifactsCoverScenes ==
    Succeeded =>
        LET stored == motion_sessions[response.session_id].prompts.items
        IN  /\ Len(response.prompts) = NumImages
            /\ IndexSet(response.prompts) = 0..(NumImages - 1)
            /\ Len(stored) = NumImages
            /\ IndexSet(stored) = 0..(NumImages - 1)

\* C2: after the writers stage the pre-review list has N elements, the fallback
\* artifact of scene i at exactly the positions whose task failed (raised,
\* empty response, unparseable text) and the writer's own parsed artifact at
\* every other position.
C2_FallbackExactlyWhereFailed ==
    motion_prompts # Nil =>
        /\ IsList(motion_prompts)
        /\ Len(motion_prompts.items) = NumImages
        /\ \A i \in 1..NumImages :
              IF tasks[i].outcome \in FailedKinds
              THEN motion_prompts.items[i] = FallbackArtifact(i - 1, PipelineType)
              ELSE /\ tasks[i].outcome = "parsed"
                   /\ motion_prompts.items[i] = tasks[i].parsed
                   /\ motion_prompts.items[i] # FallbackArtifact(i - 1, PipelineType)

C2_Witness ==
    /\ pc = "await_editor"
    /\ NumImages = 2
    /\ tasks[1].outcome = "raised"
    /\ tasks[2].outcome = "parsed"
    /\ motion_prompts.items[1] = FallbackArtifact(0, PipelineType)
    /\ motion_prompts.items[2] = WriterArtifact(1, 1)

\* C3: failed writer tasks never abort the run: once all tasks have settled and
\* gather has returned, unless a task returned a result that is no well-formed
\* artifact, the run did not end in the writers stage and the editor was
\* invoked, for any number of failed tasks including all N.
C3_WriterFailuresAbsorbed ==
    (/\ Len(tasks) > 0
     /\ AllSettled
     /\ pc # "writers"
     /\ \A i \in 1..Len(tasks) :
            tasks[i].outcome = "parsed" =>
                IsDict(tasks[i].parsed) /\ Get(tasks[i].parsed, "typed", TRUE))
        => (EndedInStage # "writers" /\ EditorInvoked)

C3_Witness ==
    /\ Succeeded
    /\ NumImages = 2
    /\ \A i \in 1..2 : tasks[i].outcome \in FailedKinds
    /\ EditorInvoked
    /\ response.session_id \in Stored
    /\ \A i \in 1..2 : motion_sessions[response.session_id].prompts.items[i].scene_index = i - 1

\* C4: a writer response that cannot be parsed, or that parses to JSON that is
\* no object, gives that scene the fallback artifact and does not abort the
\* run.  (Stated as claimed; the code aborts on a non-object result.)
C4_WriterShapeErrorAbsorbed ==
    \A i \in 1..Len(tasks) :
        (/\ AllSettled
         /\ pc # "writers"
         /\ \/ tasks[i].outcome = "unparseable"
            \/ tasks[i].outcome = "parsed" /\ ~IsDict(tasks[i].parsed))
            => /\ EndedInStage # "writers"
               /\ motion_prompts # Nil
               /\ motion_prompts.items[i] = FallbackArtifact(i - 1, PipelineType)

C6_EditorContentNeverFatal ==
    (pc = "idle" /\ PlanOrderIsList /\ yielded.editor \in {"unparseable", "parsed"})
        => (response.status = 200 /\ response.session_id \in Stored)

\* the editor output is neither an object with a prompts key nor an array
EditorUnrecognized ==
    \/ yielded.editor \in {"empty", "unparseable"}
    \/ /\ yielded.editor = "parsed"
       /\ ~(IsDict(editor_out) /\ Has(editor_out, "prompts"))
       /\ ~IsList(editor_out)

\* C7: when the editor output is neither an object with a prompts key nor a
\* bare array, the artifact list stored in the session and returned is element
\* for element the pre-review list, and the resolved order is the plan's
\* recommended_order.
C7_EditorFallbackKeepsWriterList ==
    (pc = "idle" /\ EditorUnrecognized) =>
        /\ Stored # {}
        /\ \A sid \in Stored :
              /\ motion_sessions[sid].prompts = motion_prompts
              /\ motion_sessions[sid].final_order = scene_plan.recommended_order
        /\ response.status = 200 =>
              /\ response.recommended_order = scene_plan.recommended_order
              /\ Len(response.prompts) = Len(motion_prompts.items)
              /\ \A i \in 1..Len(motion_prompts.items) :
                    /\ response.prompts[i].scene_index = motion_prompts.items[i].scene_index
                    /\ response.prompts[i].body = motion_prompts.items[i].body

C7_Witness ==
    /\ Succeeded
    /\ NumImages = 2
    /\ yielded.editor = "parsed"
    /\ IsDict(editor_out)
    /\ ~Has(editor_out, "prompts")
    /\ Has(editor_out, "final_order")
    /\ editor_out.final_order # scene_plan.recommended_order
    /\ motion_sessions[response.session_id].final_order = scene_plan.recommended_order
    /\ motion_sessions[response.session_id].prompts = motion_prompts

\* the editor returned a JSON object and the run went on to store a session
EditorObjectStored ==
    /\ pc = "idle"
    /\ yielded.editor = "parsed"
    /\ IsDict(editor_out)
    /\ Stored # {}

PlanReasoning == Get(scene_plan, "order_reasoning", "")

\* C8 as claimed: for a parsed editor object, order_changed with final_order
\* adopts that order and its reason; final_order without the flag adopts the
\* order and keeps the plan's rationale; otherwise the plan's order is kept.
C8_OrderResolvedFromEditorObject ==
    (EditorObjectStored /\ PlanOrderIsList) =>
        LET changed == Get(editor_out, "order_changed", FALSE) /\ Has(editor_out, "final_order")
            order == IF Has(editor_out, "final_order")
                     THEN editor_out.final_order
                     ELSE scene_plan.recommended_order
            reason == IF changed
                      THEN Get(editor_out, "order_change_reason", PlanReasoning)
                      ELSE PlanReasoning
        IN  /\ \A sid \in Stored : motion_sessions[sid].final_order = order
            /\ response.status = 200 =>
                  /\ response.recommended_order = order
                  /\ response.order_reasoning = reason

\* C8 as amended: the order resolution applies to a parsed editor object that
\* has a prompts key: order_changed with final_order adopts that order and the
\* reason it states (the plan's rationale if it states none); final_order
\* without the flag adopts the order and keeps the plan's rationale; otherwise
\* the plan's order is kept.  An editor object without a prompts key leaves the
\* plan's order and rationale in place.
C8_OrderResolvedFromReviewedObject ==
    EditorObjectStored =>
        LET reviewed == Has(editor_out, "prompts")
            adopted == reviewed /\ Has(editor_out, "final_order")
            changed == adopted /\ Get(editor_out, "order_changed", FALSE)
            order == IF adopted THEN editor_out.final_order ELSE scene_plan.recommended_order
            reason == IF changed
                      THEN Get(editor_out, "order_change_reason", PlanReasoning)
                      ELSE PlanReasoning
        IN  /\ \A sid \in Stored : motion_sessions[sid].final_order = order
            /\ response.status = 200 =>
                  /\ response.recommended_order = order
                  /\ response.order_reasoning = reason

C8_Witness ==
    /\ Succeeded
    /\ NumImages = 2
    /\ yielded.editor = "parsed"
    /\ IsDict(editor_out)
    /\ Has(editor_out, "prompts")
    /\ Get(editor_out, "order_changed", FALSE)
    /\ Has(editor_out, "final_order")
    /\ editor_out.final_order # scene_plan.recommended_order
    /\ response.recommended_order = editor_out.final_order
    /\ response.order_reasoning = "editor reasoning"
    /\ PlanReasoning = "planner reasoning"

\* the planner's scenes list, once the plan has been normalized
PlannedScenes == raw_plan.scenes.items

\* C9: a planner scenes list of length L < N is padded to exactly N scenes:
\* the first L are the planner's records unchanged and in order, the appended
\* placeholders carry scene_index L, L+1, ..., N-1 in that order.
C9_ShortPlanPadded ==
    (scene_plan # Nil /\ Len(PlannedScenes) < NumImages) =>
        LET scenes == scene_plan.scenes.items
            old_length == Len(PlannedScenes)
        IN  /\ Len(scenes) = NumImages
            /\ \A j \in 1..old_length : scenes[j] = PlannedScenes[j]
            /\ \A j \in (old_length + 1)..NumImages :
                  /\ scenes[j].scene_index = j - 1
                  /\ scenes[j].payload \in {"default_i2v_scene", "default_mc_scene"}

C9_Witness ==
    /\ scene_plan # Nil
    /\ NumImages = 2
    /\ Len(PlannedScenes) = 1
    /\ scene_plan.scenes.items[1] = PlannerScene(0, 0)
    /\ scene_plan.scenes.items[2].scene_index = 1
    /\ scene_plan.scenes.items[2].payload = "default_i2v_scene"

\* C10: a planner scenes list longer than N is cut to exactly its first N
\* records, in their original order.
C10_LongPlanTruncated ==
    (scene_plan # Nil /\ Len(PlannedScenes) > NumImages) =>
        scene_plan.scenes.items = SubSeq(PlannedScenes, 1, NumImages)

C10_Witness ==
    /\ scene_plan # Nil
    /\ NumImages = 2
    /\ Len(PlannedScenes) = 3
    /\ Len(scene_plan.scenes.items) = 2
    /\ scene_plan.scenes.items[2] = PlannerScene(1, 1)

\* the items of order are exactly 0..n-1, each once
IsPermutation(order, n) ==
    /\ IsList(order)
    /\ Len(order.items) = n
    /\ \A k \in 0..(n - 1) : \E j \in 1..n : order.items[j] = k

\* C11: after plan normalization recommended_order is a permutation of
\* 0..N-1, for every planner output that has a scenes list.  (Stated as
\* claimed; the code keeps whatever recommended_order the planner supplied.)
C11_NormalizedOrderIsPermutation ==
    scene_plan # Nil => IsPermutation(scene_plan.recommended_order, NumImages)

\* C12: when the planner's recommended_order is absent or malformed (no list,
\* wrong length, duplicates, out-of-range entries), the normalized
\* recommended_order is the identity 0, 1, ..., N-1.  (Stated as claimed; the
\* code defaults the field only when it is absent.)
C12_MalformedOrderBecomesIdentity ==
    (/\ scene_plan # Nil
     /\ \/ ~Has(raw_plan, "recommended_order")
        \/ ~IsPermutation(raw_plan.recommended_order, NumImages))
        => scene_plan.recommended_order = JList(Range(NumImages))

\* the planner's text parsed to something that carries no scenes list
PlanWithoutScenes ==
    /\ yielded.config = "parsed"
    /\ raw_plan # Nil
    /\ ~(IsDict(raw_plan) /\ Has(raw_plan, "scenes") /\ IsList(raw_plan.scenes))

RefinePrior ==
    IF lookup.session_id \in DOMAIN lookup.store
    THEN lookup.store[lookup.session_id]
    ELSE Nil
\* the last refine call found its session and has returned
RefineEnded == lookup # Nil /\ lookup.hit /\ pc = "idle"
RefineSucceeded == RefineEnded /\ response.status = 200
\* the entry of the refined session as the call left it
RefinedEntry == motion_sessions[lookup.session_id]
\* the artifact list a recognized refine result carries
ReturnedList == IF IsDict(refine_out) THEN refine_out.prompts ELSE refine_out

\* C14: a session last accessed at T is not found by a refine lookup at a time
\* with now - T > TTL; a lookup with now - T <= TTL finds it and sets its
\* last_access to the time of the lookup.
C14_ExpiredNeverFoundLiveRefreshed ==
    (lookup # Nil /\ RefinePrior # Nil) =>
        LET age == lookup.at - RefinePrior.last_access
        IN  /\ age > SESSION_TTL =>
                  /\ ~lookup.hit
                  /\ lookup.session_id \notin Stored
                  /\ response.status = 404
            /\ age <= SESSION_TTL =>
                  /\ lookup.hit
                  /\ lookup.session_id \in Stored
                  /\ RefinedEntry.last_access = lookup.at

C14_Witness ==
    /\ lookup # Nil
    /\ lookup.hit
    /\ RefinePrior.last_access = 1
    /\ lookup.at = SESSION_TTL + 1
    /\ RefinedEntry.last_access = SESSION_TTL + 1

\* C15: a refine against an unknown or expired session id ends with the
\* not-found client error 404, invokes no agent, leaves no entry under that id
\* and changes no entry that remains.
C15_UnknownSessionIsNotFound ==
    (/\ lookup # Nil
     /\ \/ RefinePrior = Nil
        \/ lookup.at - RefinePrior.last_access > SESSION_TTL)
        => /\ pc = "idle"
           /\ response.status = 404
           /\ calls = <<>>
           /\ refine_out = Nil
           /\ lookup.session_id \notin Stored
           /\ \A sid \in Stored :
                  sid \in DOMAIN lookup.store /\ motion_sessions[sid] = lookup.store[sid]

C15_Witness ==
    /\ lookup # Nil
    /\ lookup.session_id = "unknown"
    /\ Stored # {}
    /\ response.status = 404
    /\ calls = <<>>

\* C16: after a successful refine the session's artifacts are exactly the list
\* the refine agent returned; so for a call scoped to scene k, every position
\* other than k that the returned list left as it was is the same in the
\* session before and after the call.
C16_RefineStoresReturnedList ==
    RefineSucceeded =>
        /\ RefinedEntry.prompts = ReturnedList
        /\ \A i \in 1..Len(ReturnedList.items) :
              (/\ req.scene_index # NoScene
               /\ i - 1 # req.scene_index
               /\ i <= Len(RefinePrior.prompts.items)
               /\ ReturnedList.items[i] = RefinePrior.prompts.items[i])
                  => RefinedEntry.prompts.items[i] = RefinePrior.prompts.items[i]

C16_Witness ==
    /\ RefineSucceeded
    /\ req.scene_index = 0
    /\ Len(RefinePrior.prompts.items) = MaxN
    /\ ReturnedList.items = RefinedAt(RefinePrior.prompts.items, 1)
    /\ RefinedEntry.prompts.items[1] # RefinePrior.prompts.items[1]
    /\ RefinedEntry.prompts.items[2] = RefinePrior.prompts.items[2]

\* the refine result is an object that declares order_changed with a final_order
DeclaresOrderChange ==
    /\ IsDict(refine_out)
    /\ Get(refine_out, "order_changed", FALSE)
    /\ Has(refine_out, "final_order")

GeneratedPipelineType(sid) == IF sid = "sid2" THEN MC ELSE PRO

\* C18: every successful refine answers with the request's session id, leaves
\* the entry under that same key, and names the pipeline type stored when the
\* session was generated, however many refine calls went before.
C18_RefineKeepsIdAndPipeline ==
    RefineSucceeded =>
        /\ response.session_id = req.session_id
        /\ req.session_id \in Stored
        /\ RefinedEntry.session_id = req.session_id
        /\ RefinedEntry.pipeline_type = GeneratedPipelineType(req.session_id)
        /\ response.pipeline_type = GeneratedPipelineType(req.session_id)

C18_Witness ==
    /\ RefineSucceeded
    /\ req.session_id = "sid2"
    /\ RefinePrior.prompts # GeneratedPrompts
    /\ RefinedEntry.prompts # RefinePrior.prompts
    /\ response.session_id = "sid2"
    /\ response.pipeline_type = MC

\* the refine agent gave no text, text without JSON, or JSON that is neither
\* an object with a prompts key nor an array
RefineUnrecognized ==
    \/ yielded.refine \in {"empty", "unparseable"}
    \/ /\ yielded.refine = "parsed"
       /\ ~(IsDict(refine_out) /\ Has(refine_out, "prompts"))
       /\ ~IsList(refine_out)

\* C19: when the refine agent returns no text, text with no extractable JSON,
\* or JSON that is neither an object with a prompts key nor an array, the call
\* returns a server error and not the previous artifacts.
C19_RefineFailureSurfaced ==
    (RefineEnded /\ RefineUnrecognized) =>
        /\ response.status = 500
        /\ ~Has(response, "prompts")

C19_Witness ==
    /\ RefineEnded
    /\ yielded.refine = "parsed"
    /\ IsDict(refine_out)
    /\ ~Has(refine_out, "prompts")
    /\ response.status = 500
    /\ response.detail = "Refine agent returned invalid format"

\* C20: when a refine call that found its session returns an error, the
\* session's artifacts and its resolved order are as they were before the call.
\* (Stated as claimed, for the errors raised up to the conversion of the
\* returned prompts; the code writes the order before it converts them.)
C20_FailedRefineLeavesSession ==
    (RefineEnded /\ response.status # 200 /\ EndedInStage \in {"refine", "items"}) =>
        /\ RefinedEntry.prompts = RefinePrior.prompts
        /\ RefinedEntry.final_order = RefinePrior.final_order


(***************************************************************************)
(* Properties of /motion/generate: rejection, response and session write    *)
(* (specification Spec)                                                     *)
(***************************************************************************)
\* the request fails the checks every generate call makes first
FailsCommonChecks ==
    /\ req # Nil
    /\ \/ req.n_images = 0
       \/ req.n_images > MaxImages
       \/ req.style_preset \notin STYLE_PRESETS

\* the request passes the common checks but lacks a Motion Control input
LacksMotionControlInput ==
    /\ req # Nil
    /\ ~FailsCommonChecks
    /\ req.pipeline_type = MC
    /\ (~req.has_video \/ req.character_orientation = "none")

\* C21: a generate request with no images, with more than ten images or with
\* an unknown style preset is answered with status 400 without any agent
\* having been invoked and without a session having been created.
C21_InvalidRequestRejectedBeforeStages ==
    FailsCommonChecks =>
        /\ pc = "idle"
        /\ response.status = 400
        /\ EndedInStage = "validation"
        /\ calls = <<>>
        /\ Stored = {}
        /\ fresh_ids = SessionIds

C21_Witness ==
    /\ FailsCommonChecks
    /\ req.n_images = MaxImages + 1
    /\ req.style_preset \in STYLE_PRESETS
    /\ response.status = 400

\* C22: a Motion Control request without the reference video or without the
\* character orientation is answered with status 400 (not 500) without any
\* agent having been invoked and without a session having been created.
C22_MotionControlInputRequired ==
    LacksMotionControlInput =>
        /\ pc = "idle"
        /\ response.status = 400
        /\ response.status # 500
        /\ calls = <<>>
        /\ Stored = {}
        /\ fresh_ids = SessionIds

C22_Witness ==
    /\ LacksMotionControlInput
    /\ req.has_video
    /\ req.character_orientation = "none"
    /\ response.status = 400
    /\ response.detail = "Motion Control requires character_orientation"


\* a step in which a generate request is refused with status 400
RejectedAsClientError ==
    /\ pc = "idle"
    /\ pc' = "idle"
    /\ response'.status = 400

\* C23: a generate request refused with status 400 leaves the session store
\* and every other process-wide value (the API key of the process environment)
\* as they were before the call.
C23_RejectedRequestChangesNothing ==
    [][RejectedAsClientError =>
          /\ motion_sessions' = motion_sessions
          /\ fresh_ids' = fresh_ids
          /\ GOOGLE_API_KEY' = GOOGLE_API_KEY]_vars


\* C24: every successful generate response for N images carries a non-empty
\* session id, the pipeline_type of the variant that ran, and a resolved order
\* that is a permutation of 0..N-1.  (Stated as claimed, for plans whose own
\* order is a permutation; the code returns the editor's final_order as is.)
C24_SuccessResponseWellFormed ==
    (Succeeded /\ IsPermutation(scene_plan.recommended_order, NumImages)) =>
        /\ response.session_id \in SessionIds
        /\ response.pipeline_type = PipelineType
        /\ IsPermutation(response.recommended_order, NumImages)

\* C25: a generate call that returns an error leaves the session store without
\* any new entry.  (Stated as claimed; the code stores the session before it
\* builds the response.)
C25_FailedGenerateCreatesNoSession ==
    (pc = "idle" /\ response.status \notin {0, 200}) =>
        /\ Stored = {}
        /\ fresh_ids = SessionIds

\* every value parse_json_from_text has returned during the request
ExtractedValues ==
    {v \in ({video_analysis, raw_plan, editor_out}
               \cup {tasks[i].parsed : i \in 1..Len(tasks)}) : v \notin {Nil, ValueError}}

\* C27: the response extractor returns a JSON object or a JSON array, or fails
\* with a parse error; it never returns a JSON scalar.  (Stated as claimed;
\* the code returns whatever the direct parse of the whole text yields.)
C27_ExtractorNeverReturnsScalar ==
    \A v \in ExtractedValues : IsDict(v) \/ IsList(v)


\* C26: for every order in which the writer tasks complete and every failure
\* pattern, position i of the artifact list holds the outcome of the task
\* created for scene i: that task's own result, or the fallback of scene i
\* when that task failed.
C26_ResultsInCreationOrder ==
    motion_prompts # Nil =>
        \A i \in 1..NumImages :
            /\ motion_prompts.items[i] =
                   IF tasks[i].result = Exc
                   THEN FallbackArtifact(i - 1, PipelineType)
                   ELSE tasks[i].result
            /\ Has(motion_prompts.items[i], "image") => motion_prompts.items[i].image = i - 1

C26_Witness ==
    /\ pc = "await_editor"
    /\ NumImages = 2
    /\ ~tasks[1].settled_first
    /\ tasks[2].settled_first
    /\ tasks[2].result = Exc
    /\ motion_prompts.items[1] = WriterArtifact(0, 0)
    /\ motion_prompts.items[2] = FallbackArtifact(1, PipelineType)


\* a task whose agent run has ended (a task may also end before its agent is
\* built, when looking up its sequence position raises)
AgentRunEnded(j) == tasks[j].st = "done" /\ tasks[j].state_seen # Nil

\* C28: the writers stage is a join barrier without early cancellation: all N
\* tasks exist and have taken their first step before the agent run of any of
\* them ends; the editor is invoked, and the stage is left, only after all N
\* tasks have settled; a task that fails never cancels another, every task
\* settles with an outcome of its own.
C28_JoinBarrierNoCancellation ==
    tasks # <<>> =>
        /\ Len(tasks) = NumImages
        /\ (\E j \in 1..NumImages : AgentRunEnded(j))
              => \A j \in 1..NumImages : tasks[j].st # "created"
        /\ (EditorInvoked \/ pc # "writers")
              => \A j \in 1..NumImages :
                    /\ tasks[j].st = "done"
                    /\ tasks[j].outcome \in FailedKinds \cup {"parsed"}

C28_Witness ==
    /\ pc = "await_editor"
    /\ EditorInvoked
    /\ NumImages = 2
    /\ AgentRunEnded(1)
    /\ tasks[1].outcome = "raised"
    /\ tasks[1].settled_first
    /\ tasks[2].outcome = "parsed"
    /\ ~tasks[2].settled_first


\* the pipeline state carries writer outputs
HasWriterOutputs(state) == Has(state, "motion_prompts") \/ Has(state, "context_prompts")

\* the pipeline state as a state predicate: no writer output before the join,
\* no editor notes before the editor has returned a reviewed object, and every
\* writer agent built from the one state without writer outputs
PipelineStateDiscipline ==
    /\ pc = "writers" =>
          /\ ~HasWriterOutputs(pipeline_state)
          /\ ~Has(pipeline_state, "editor_notes")
    /\ HasWriterOutputs(pipeline_state) =>
          /\ \A j \in 1..Len(tasks) : tasks[j].st = "done"
          /\ motion_prompts # Nil
    /\ Has(pipeline_state, "editor_notes") =>
          /\ yielded.editor = "parsed"
          /\ HasWriterOutputs(pipeline_state)
    /\ \A j \in 1..Len(tasks) :
          tasks[j].state_seen # Nil =>
              /\ ~HasWriterOutputs(tasks[j].state_seen)
              /\ tasks[j].state_seen.scene_plan = scene_plan
              /\ \A k \in 1..Len(tasks) :
                    tasks[k].state_seen # Nil => tasks[k].state_seen = tasks[j].state_seen

\* C29: the pipeline state is not written from the creation of the first
\* writer task until the last one has settled; the writer outputs are entered
\* only after the join and the editor notes only after the editor has
\* returned; every writer is given the same state content, the plan without
\* any writer output.
C29_StateNotWrittenWhileWritersRun ==
    /\ []PipelineStateDiscipline
    /\ [][(pc = "writers" /\ pc' = "writers") => pipeline_state' = pipeline_state]_vars

C29_Witness ==
    /\ pc = "idle"
    /\ Has(pipeline_state, "editor_notes")
    /\ NumImages = 2
    /\ Has(pipeline_state, "context_prompts")
    /\ tasks[1].state_seen # Nil
    /\ tasks[2].state_seen = tasks[1].state_seen
    /\ tasks[1].outcome = "parsed"
    /\ tasks[2].outcome = "empty"


\* the stage an agent belongs to, in pipeline order
StageRank(agent_name) ==
    IF agent_name = "video_analyzer" THEN 1
    ELSE IF agent_name \in {"config_agent", "mc_config_agent"} THEN 2
    ELSE IF agent_name \in {"motion_writer", "mc_context_writer"} THEN 3
    ELSE 4

Called(rank) == \E k \in 1..Len(calls) : StageRank(calls[k][1]) = rank

\* C30: the stages run in a fixed linear order (Pro-I2V: Config, Writers,
\* Editor; Motion Control: VideoAnalyzer, Config, Writers, Editor): the
\* agents are invoked in stage order starting with the variant's first stage,
\* no agent is invoked before the previous stage has completed, and a
\* session is written only after the Editor stage.
C30_StagesInLinearOrder ==
    /\ calls # <<>> =>
          /\ StageRank(calls[1][1]) = IF PipelineType = MC THEN 1 ELSE 2
          /\ \A k \in 1..(Len(calls) - 1) :
                /\ StageRank(calls[k][1]) <= StageRank(calls[k + 1][1])
                /\ StageRank(calls[k][1]) = StageRank(calls[k + 1][1])
                      => /\ StageRank(calls[k][1]) = 3
                         /\ calls[k][2] < calls[k + 1][2]
                /\ StageRank(calls[k + 1][1]) = 2 => StageRank(calls[k][1]) = 1
          /\ (Called(2) /\ PipelineType = MC) => yielded.video = "parsed"
          /\ (Called(3) \/ Called(4)) =>
                /\ Called(2)
                /\ yielded.config = "parsed"
                /\ scene_plan # Nil
          /\ Called(4) =>
                /\ \A j \in 1..Len(tasks) : tasks[j].st = "done"
                /\ motion_prompts # Nil
    /\ Stored # {} =>
          /\ Called(4)
          /\ LastCall = EditorName
          /\ yielded.editor # "none"

C30_Witness ==
    /\ Succeeded
    /\ PipelineType = MC
    /\ NumImages = 2
    /\ calls = <<<<"video_analyzer", -1>>, <<"mc_config_agent", -1>>,
                 <<"mc_context_writer", 0>>, <<"mc_context_writer", 1>>,
                 <<"mc_editor_agent", -1>>>>
    /\ Stored = {response.session_id}


(***************************************************************************)
(* Properties of the service as a whole (specification FairSpec)            *)
(***************************************************************************)
\* the call in progress has ended: with a session stored when it succeeded
CallEnded ==
    /\ pc = "idle"
    /\ response.status \in {200, 400, 404, 500}
    /\ response.status = 200 => response.session_id \in Stored

\* C32: provided every agent invocation eventually settles, every accepted
\* generate run eventually ends in a success response with a session stored
\* or in an error response, and every refine call eventually ends; the
\* plan-padding loop is part of the step that reads the plan.
C32_EveryCallTerminates == (pc # "idle") ~> CallEnded

C32_Witness ==
    /\ CallEnded
    /\ response.status = 200
    /\ raw_plan # Nil
    /\ PipelineType = PRO
    /\ NumImages = FairN
    /\ Len(raw_plan.scenes.items) = 0
    /\ Len(scene_plan.scenes.items) = FairN


\* how often the agent was invoked in the call in progress
Invocations(agent_name, idx) ==
    Cardinality({k \in 1..Len(calls) : calls[k] = <<agent_name, idx>>})

SingularAgents ==
    {"video_analyzer", "config_agent", "mc_config_agent", "editor_agent", "mc_editor_agent",
     "motion_refine", "mc_motion_refine"}

\* no agent is invoked twice in one call, and a refine call invokes one agent
NothingInvokedTwice ==
    /\ \A a \in SingularAgents : Invocations(a, -1) <= 1
    /\ \A a \in {"motion_writer", "mc_context_writer"} :
          \A i \in 0..MaxN : Invocations(a, i) <= 1
    /\ lookup # Nil => Len(calls) <= 1

\* every writer task has taken its first step
WritersStageReached == tasks # <<>> /\ \A j \in 1..Len(tasks) : tasks[j].st # "created"

\* C31: nothing is retried: no agent is invoked twice in one call, a refine
\* call invokes the refine agent at most once, and each scene's writer agent
\* is invoked exactly once when the writers stage is reached, whatever the
\* outcomes.  (Stated as claimed; no agent is ever invoked twice, but a writer
\* task whose position lookup raises ends before its agent is built.)
C31_NothingRetriedWritersOnce ==
    /\ NothingInvokedTwice
    /\ WritersStageReached =>
          \A i \in 0..(NumImages - 1) : Invocations(WriterName, i) = 1


(***************************************************************************)
(* Properties of /motion/refine: order returned, fields left alone          *)
(* (specification RefineSpec)                                               *)
(***************************************************************************)
\* C36: the resolved order returned by a successful refine call equals the
\* session's stored resolved order after that call.  (Stated as claimed; the
\* code returns a final_order it did not store when order_changed is not
\* declared.)
C36_ReturnedOrderIsStoredOrder ==
    RefineSucceeded => response.recommended_order = RefinedEntry.final_order

\* the fields of a session entry no refine call assigns
FrozenFields ==
    {"session_id", "scene_plan", "style_preset", "pipeline_type", "pipeline_state",
     "video_analysis", "character_orientation", "keep_original_sound"}

\* C38: a refine call, successful or not, leaves the session's scene_plan,
\* style_preset, pipeline_type, pipeline_state, video_analysis and
\* character_orientation unchanged; only the stored artifacts, the stored
\* resolved order and last_access can differ from before the call.
C38_RefineLeavesOtherFields ==
    RefineEnded =>
        /\ DOMAIN RefinedEntry = DOMAIN RefinePrior
        /\ \A f \in FrozenFields : RefinedEntry[f] = RefinePrior[f]

C38_Witness ==
    /\ RefineSucceeded
    /\ req.session_id = "sid2"
    /\ RefinedEntry.prompts # RefinePrior.prompts
    /\ RefinedEntry.final_order # RefinePrior.final_order
    /\ RefinedEntry.last_access # RefinePrior.last_access
    /\ RefinedEntry.pipeline_state = RefinePrior.pipeline_state
    /\ RefinedEntry.video_analysis = VideoAnalysis


(***************************************************************************)
(* Properties of the writer inputs (specification Spec)                     *)
(***************************************************************************)
\* the writer agent of task j has been built
WriterBuilt(j) == tasks[j].state_seen # Nil

\* C39: for every scene i the plan record handed to writer i is the record
\* for scene i, so no two writers of a run are given the same plan record.
\* (Stated as claimed; the code looks the record up by the scene_index the
\* planner declared and keeps whatever records the planner supplied.)
C39_WriterGetsItsSceneRecord ==
    \A i \in 1..Len(tasks) :
        WriterBuilt(i) =>
            /\ Get(tasks[i].scene_data, "scene_index", -1) = i - 1
            /\ \A j \in 1..Len(tasks) :
                  (j # i /\ WriterBuilt(j)) => tasks[j].scene_data # tasks[i].scene_data

\* C40: the sequence position given to writer i is the index of the first
\* occurrence of i in recommended_order, and i itself when i does not occur
\* in it; when recommended_order is a permutation of 0..N-1 the N writers
\* receive N distinct positions.
C40_SequencePositionFirstOccurrence ==
    \A i \in 1..Len(tasks) :
        WriterBuilt(i) =>
            LET order == scene_plan.recommended_order.items
                at == {k \in 1..Len(order) : order[k] = i - 1}
            IN  /\ at = {} => tasks[i].seq_pos = i - 1
                /\ at # {} =>
                      /\ tasks[i].seq_pos + 1 \in at
                      /\ \A k \in at : tasks[i].seq_pos + 1 <= k
                /\ IsPermutation(scene_plan.recommended_order, NumImages) =>
                      \A j \in 1..Len(tasks) :
                          (j # i /\ WriterBuilt(j)) => tasks[j].seq_pos # tasks[i].seq_pos

C40_Witness ==
    /\ pc = "writers"
    /\ NumImages = 2
    /\ WriterBuilt(1)
    /\ WriterBuilt(2)
    /\ scene_plan.recommended_order = JList(<<0, 0>>)
    /\ tasks[1].seq_pos = 0
    /\ tasks[2].seq_pos = 1


(***************************************************************************)
(* Properties of calls that overlap in time (specification OverlapSpec)     *)
(***************************************************************************)
\* call c was a refine call and has answered 200
RefineAnswered(c) ==
    /\ inflight[c].op = "refine"
    /\ inflight[c].phase = "done"
    /\ inflight[c].response.status = 200

\* C33: between a refine call's read of the session's artifacts and its
\* write-back no other call writes that entry, so two overlapping refine
\* calls on one session never lose an update: when a call writes back, the
\* entry still holds the artifacts the call was shown.  (Stated as claimed;
\* nothing in the code keeps a second call from writing in between.)
C33_NoWriteBetweenReadAndWriteBack ==
    \A c \in CallIds : RefineAnswered(c) => inflight[c].found = inflight[c].shown

\* C34: every agent invocation made for a request runs with the API key of
\* that request, also when requests with different keys overlap.  (Stated as
\* claimed; the key is a process-wide environment value.)
C34_AgentsRunWithRequestKey ==
    \A c \in CallIds :
        inflight[c].phase # "new" =>
            \A k \in 1..Len(inflight[c].keys) :
                inflight[c].keys[k][2] = inflight[c].req.api_key

\* C35: when a refine call answers 200, the session it names is present in
\* the store and holds the artifacts just returned, even if other calls ran
\* their sweep while the agent run was in flight.  (Stated as claimed.)
C35_RefinedSessionStillStored ==
    \A c \in CallIds : RefineAnswered(c) => inflight[c].in_store

\* a step in which a call starts, and with it runs the sweep
SweepStep == \E c \in CallIds : inflight[c].phase = "new" /\ inflight'[c].phase # "new"

\* C37: the sweep at the start of a generate or refine call removes exactly
\* the entries with now - last_access > TTL and leaves every other entry in
\* place and unchanged (age exactly TTL is kept; the refine call that looked
\* an entry up then sets its last_access); apart from the sweep no step
\* deletes a session, and no step puts a new entry under an existing or a
\* deleted session id.
C37_SweepRemovesExactlyExpired ==
    [][/\ \A sid \in DOMAIN motion_sessions :
             /\ sid \notin DOMAIN motion_sessions' =>
                   /\ SweepStep
                   /\ now - motion_sessions[sid].last_access > SESSION_TTL
             /\ (SweepStep /\ now - motion_sessions[sid].last_access <= SESSION_TTL) =>
                   /\ sid \in DOMAIN motion_sessions'
                   /\ motion_sessions'[sid] \in
                         {motion_sessions[sid],
                          [motion_sessions[sid] EXCEPT !.last_access = now]}
             /\ (SweepStep /\ now - motion_sessions[sid].last_access > SESSION_TTL) =>
                   sid \notin DOMAIN motion_sessions'
             /\ sid \in DOMAIN motion_sessions' =>
                   \A f \in FrozenFields : motion_sessions'[sid][f] = motion_sessions[sid][f]
       /\ \A sid \in DOMAIN motion_sessions' \ DOMAIN motion_sessions :
             /\ sid \notin DOMAIN detached
             /\ ~SweepStep]_vars

C37_Witness ==
    /\ now = SESSION_TTL + 1
    /\ DOMAIN motion_sessions = {"sid3"}
    /\ motion_sessions["sid3"].last_access = 1
    /\ "sid1" \in DOMAIN detached
    /\ detached["sid1"].last_access = 0
    /\ inflight["b"].phase # "new"

====
